---- MODULE Spec2Model ----
(***************************************************************************)
(* pycomar.images.colorspace: the colorspace transforms and the            *)
(* luma/chroma fusion, as operations a caller applies to tensors it owns.  *)
(*                                                                         *)
(* A tensor is a record [shape, data]: `shape' the sequence of dimension   *)
(* sizes, `data' the elements in row-major order.  Elements are float32    *)
(* values (torch's default dtype), held as <<m, e>> for m * 2^e with m     *)
(* odd, |m| < 2^24, and every arithmetic step rounds to nearest-even as    *)
(* the hardware does.  The exponent range is not bounded: no value of the  *)
(* model comes near float32's overflow or subnormal range.                 *)
(***************************************************************************)
EXTENDS Integers, Sequences, FiniteSets, TLC

\* image              the tensor the caller passes to a transform
\* img_gray, img_rgb  the buffers the caller passes to fuse_luma_chroma
\* out                what the last call returned, or the error it raised
\* last               the last call: the function and its clip argument
\* src, chain         the argument of the call whose result `image' now is,
\*                    and the functions composed so far
\* nfuse              the number of fuse_luma_chroma calls made
VARIABLES image, img_gray, img_rgb, out, last, src, chain, nfuse

vars == <<image, img_gray, img_rgb, out, last, src, chain, nfuse>>

(***************************************************************************)
(* float32 arithmetic                                                      *)
(***************************************************************************)
Zero == <<0, 0>>
NaN == <<0, 1>>
PInf == <<0, 2>>
NInf == <<0, 3>>

IsFinite(a) == a[1] # 0 \/ a = Zero

Abs(n) == IF n < 0 THEN -n ELSE n

\* the number of bits of n, 0 <= n < 2^31
BitLen(n) ==
  IF n = 0 THEN 0
  ELSE CHOOSE k \in 1..31 : 2^(k - 1) <= n /\ (k = 31 \/ n < 2^k)

\* the number of trailing zero bits of m # 0
TrailingZeros(m) ==
  CHOOSE k \in 0..30 : m % (2^k) = 0 /\ (m \div (2^k)) % 2 = 1

\* canonical form: the mantissa odd, or <<0, 0>>
NormBy(m, e, k) == <<m \div (2^k), e + k>>
Norm(m, e) == IF m = 0 THEN Zero ELSE NormBy(m, e, TrailingZeros(m))

\* sgn * (M + a fraction in (0,1) when sticky) * 2^E, rounded to 24 bits,
\* ties to even
RoundUp(sgn, q, r, half, E, sticky) ==
  Norm(sgn * (IF r > half \/ (r = half /\ (sticky \/ q % 2 = 1))
                THEN q + 1 ELSE q), E)

RoundAt(sgn, M, E, sticky, k) ==
  IF k <= 0 THEN Norm(sgn * M, E)
  ELSE RoundUp(sgn, M \div (2^k), M % (2^k), 2^(k - 1), E + k, sticky)

RoundNE(sgn, M, E, sticky) == RoundAt(sgn, M, E, sticky, BitLen(M) - 24)

FromInt(n) == RoundNE(IF n < 0 THEN -1 ELSE 1, Abs(n), 0, FALSE)

\* -1, 0, 1; 0 for NaN
Sgn(a) ==
  IF a = NaN THEN 0
  ELSE IF a = PInf THEN 1
  ELSE IF a = NInf THEN -1
  ELSE IF a[1] < 0 THEN -1 ELSE IF a[1] > 0 THEN 1 ELSE 0

FNeg(a) ==
  IF a = NaN THEN NaN
  ELSE IF a = PInf THEN NInf
  ELSE IF a = NInf THEN PInf
  ELSE <<-a[1], a[2]>>

\* the mantissa left-justified to 24 bits
ExpandBy(a, sh) == <<Abs(a[1]) * 2^sh, a[2] - sh>>
Expand(a) == ExpandBy(a, 24 - BitLen(Abs(a[1])))

\* X - or + the smaller operand, shifted to X's scale with three guard bits;
\* st: bits of the smaller operand were shifted out
AddShifted(X, Yq, st, E0, sx, sy) ==
  IF sx = sy THEN RoundNE(sx, X + Yq, E0, st)
  ELSE IF X - Yq - (IF st THEN 1 ELSE 0) >= 0
    THEN RoundNE(sx, X - Yq - (IF st THEN 1 ELSE 0), E0, st)
  ELSE RoundNE(-sx, Yq - X, E0, FALSE)

AddAligned(X, Y8, sh, E0, sx, sy) ==
  AddShifted(X, IF sh >= 28 THEN 0 ELSE Y8 \div (2^sh),
             IF sh >= 28 THEN TRUE ELSE Y8 % (2^sh) # 0, E0, sx, sy)

AddOrdered(A, B, sa, sb) ==
  IF A[2] >= B[2]
    THEN AddAligned(A[1] * 8, B[1] * 8, A[2] - B[2], A[2] - 3, sa, sb)
    ELSE AddAligned(B[1] * 8, A[1] * 8, B[2] - A[2], B[2] - 3, sb, sa)

AddFinite(a, b) == AddOrdered(Expand(a), Expand(b), Sgn(a), Sgn(b))

FAdd(a, b) ==
  IF a = NaN \/ b = NaN THEN NaN
  ELSE IF ~IsFinite(a) THEN (IF ~IsFinite(b) /\ b # a THEN NaN ELSE a)
  ELSE IF ~IsFinite(b) THEN b
  ELSE IF a = Zero THEN b
  ELSE IF b = Zero THEN a
  ELSE AddFinite(a, b)

FSub(a, b) == FAdd(a, FNeg(b))

\* the 48-bit product H * 2^24 + L, cut to 30 bits and rounded
MulShift(s, e, H, L, k) ==
  RoundNE(s, H * 2^k + L \div (2^(24 - k)), e + 24 - k, L % (2^(24 - k)) # 0)

MulJoin(s, e, H, L) == MulShift(s, e, H, L, 30 - BitLen(H))

MulParts(s, e, hh, mid, low) ==
  MulJoin(s, e,
          hh + mid \div 4096 + ((mid % 4096) * 4096 + low) \div (2^24),
          ((mid % 4096) * 4096 + low) % (2^24))

MulMant(s, ma, mb, e) ==
  IF ma <= (2^30) \div mb THEN RoundNE(s, ma * mb, e, FALSE)
  ELSE MulParts(s, e, (ma \div 4096) * (mb \div 4096),
                (ma \div 4096) * (mb % 4096) + (ma % 4096) * (mb \div 4096),
                (ma % 4096) * (mb % 4096))

MulFinite(a, b) == MulMant(Sgn(a) * Sgn(b), Abs(a[1]), Abs(b[1]), a[2] + b[2])

FMul(a, b) ==
  IF a = NaN \/ b = NaN THEN NaN
  ELSE IF ~IsFinite(a) \/ ~IsFinite(b)
    THEN (IF a = Zero \/ b = Zero THEN NaN
          ELSE IF Sgn(a) * Sgn(b) > 0 THEN PInf ELSE NInf)
  ELSE IF a = Zero \/ b = Zero THEN Zero
  ELSE MulFinite(a, b)

\* long division of 24-bit mantissas, seven quotient bits a step:
\* qr = <<quotient so far, remainder>>
DivStep(qr, d) == <<qr[1] * 128 + (qr[2] * 128) \div d, (qr[2] * 128) % d>>

\* the quotient n / d to 28 fractional bits, and what is left over
DivBits(n, d) ==
  DivStep(DivStep(DivStep(DivStep(<<n \div d, n % d>>, d), d), d), d)

DivRound(s, qr, e) == RoundNE(s, qr[1], e, qr[2] # 0)

DivMant(s, A, B) == DivRound(s, DivBits(A[1], B[1]), A[2] - B[2] - 28)

DivFinite(a, b) == DivMant(Sgn(a) * Sgn(b), Expand(a), Expand(b))

FDiv(a, b) ==
  IF a = NaN \/ b = NaN THEN NaN
  ELSE IF ~IsFinite(a) THEN (IF ~IsFinite(b) THEN NaN
                             ELSE IF Sgn(a) * Sgn(b) >= 0 THEN a ELSE FNeg(a))
  ELSE IF ~IsFinite(b) THEN Zero
  ELSE IF b = Zero THEN (IF a = Zero THEN NaN
                         ELSE IF Sgn(a) > 0 THEN PInf ELSE NInf)
  ELSE IF a = Zero THEN Zero
  ELSE DivFinite(a, b)

\* comparisons are false on NaN
FLt(a, b) == a # NaN /\ b # NaN /\ a # b /\ Sgn(FSub(a, b)) < 0
FLe(a, b) == a # NaN /\ b # NaN /\ (a = b \/ Sgn(FSub(a, b)) < 0)
FGt(a, b) == FLt(b, a)

FFloor(a) ==
  IF ~IsFinite(a) \/ a[2] >= 0 THEN a
  ELSE IF -a[2] > 30 THEN (IF a[1] < 0 THEN FromInt(-1) ELSE Zero)
  ELSE FromInt(a[1] \div (2^(-a[2])))

\* C fmod(a, b) for finite a and b > 0: exact, with the sign of a
FMod(a, b) ==
  IF a[2] >= b[2]
    THEN Norm(Sgn(a) * ((Abs(a[1]) * 2^(a[2] - b[2])) % b[1]), b[2])
  ELSE IF b[2] - a[2] > 27 THEN a
  ELSE Norm(Sgn(a) * (Abs(a[1]) % (b[1] * 2^(b[2] - a[2]))), a[2])

\* torch.remainder(a, b), b > 0: fmod, then b added to a negative result
RemFix(m, b) == IF m # Zero /\ Sgn(m) < 0 THEN FAdd(m, b) ELSE m
FRem(a, b) == IF ~IsFinite(a) THEN NaN ELSE RemFix(FMod(a, b), b)

\* the float32 nearest to the decimal n / d (|n|, d < 2^24)
Dec(n, d) == FDiv(FromInt(n), FromInt(d))

One == FromInt(1)

(***************************************************************************)
(* tensors                                                                 *)
(***************************************************************************)
None == [none |-> TRUE]
IsTensor(x) == "shape" \in DOMAIN x
IsError(x) == "error" \in DOMAIN x
ValueError == [error |-> "ValueError"]
IndexError == [error |-> "IndexError"]
RuntimeError == [error |-> "RuntimeError"]

Tensor(shape, data) == [shape |-> shape, data |-> data]

RECURSIVE Prod(_)
Prod(s) == IF s = <<>> THEN 1 ELSE Head(s) * Prod(Tail(s))

Rank(t) == Len(t.shape)
\* for a shape (*, C, H, W): the batch dims, C, and H * W
Batch(t) == SubSeq(t.shape, 1, Rank(t) - 3)
Chan(t) == t.shape[Rank(t) - 2]
Spatial(t) == SubSeq(t.shape, Rank(t) - 1, Rank(t))
Inner(t) == Prod(Spatial(t))
Outer(t) == Prod(Batch(t))

\* element [o, c, i] of t: batch position o, channel c, spatial position i
At(t, o, c, i) == t.data[(o * Chan(t) + c) * Inner(t) + i + 1]

\* image[..., 0, :, :], image[..., 1, :, :], image[..., 2, :, :] at one position
Pixel(t, o, i) == <<At(t, o, 0, i), At(t, o, 1, i), At(t, o, 2, i)>>

\* torch.stack(planes, dim=-3) of the n planes F computes from each pixel
Stack(t, res, n, inner) ==
  Tensor(Batch(t) \o <<n>> \o Spatial(t),
         [k \in 1..(Outer(t) * n * inner) |->
            res[((k - 1) \div (n * inner)) * inner + ((k - 1) % inner) + 1]
               [(((k - 1) \div inner) % n) + 1]])

\* the pixels of t, numbered 1..Outer * Inner, and the p-th of them
PixelIndex(t) == 1..(Outer(t) * Inner(t))
PixelAt(t, p) == Pixel(t, (p - 1) \div Inner(t), (p - 1) % Inner(t))

\* torch.stack of the n planes in res, res[p] the n values at pixel p
StackPixels(t, res, n) == Stack(t, res, n, Inner(t))

\* the check every validating transform makes
BadShape(t) == Rank(t) < 3 \/ t.shape[Rank(t) - 2] # 3

\* torch.clamp: NaN stays NaN
ClampMin(x, lo) == IF FLt(x, lo) THEN lo ELSE x
\* a clamp that lost its max argument
ClampMinOnly(x, lo, hi) == ClampMin(x, lo)
Clamp(x, lo, hi) == IF FLt(x, lo) THEN lo ELSE IF FGt(x, hi) THEN hi ELSE x

(***************************************************************************)
(* RGB <-> HSV                                                             *)
(***************************************************************************)
TwoPi == <<13176795, -21>>      \* float32(2 * math.pi) = 6.2831855
Two == FromInt(2)
Four == FromInt(4)
Six == FromInt(6)
DefaultEps == Dec(1, 100000000) \* eps: float = 1e-8

\* the maximum with the index of its last occurrence
MaxOf_last(px) ==
  IF FLe(px[1], px[2])
    THEN (IF FLe(px[2], px[3]) THEN <<px[3], 3>> ELSE <<px[2], 2>>)
    ELSE (IF FLe(px[1], px[3]) THEN <<px[3], 3>> ELSE <<px[1], 1>>)

\* image.max(-3) of finite values: the value and the index of its first
\* occurrence
MaxOf(px) ==
  IF FLt(px[1], px[2])
    THEN (IF FLt(px[2], px[3]) THEN <<px[3], 3>> ELSE <<px[2], 2>>)
    ELSE (IF FLt(px[1], px[3]) THEN <<px[3], 3>> ELSE <<px[1], 1>>)

MinOf(px) ==
  IF FLt(px[2], px[1])
    THEN (IF FLt(px[3], px[2]) THEN px[3] ELSE px[2])
    ELSE (IF FLt(px[3], px[1]) THEN px[3] ELSE px[1])

\* h1, h2, h3 divided by deltac, and the one gathered at argmax_rgb
HueAt(argmax_rgb, rc, gc, bc, deltac) ==
  IF argmax_rgb = 1 THEN FDiv(FSub(bc, gc), deltac)
  ELSE IF argmax_rgb = 2
    THEN FDiv(FAdd(FSub(rc, bc), FMul(Two, deltac)), deltac)
  ELSE FDiv(FAdd(FSub(gc, rc), FMul(Four, deltac)), deltac)

\* h / 6.0 with the remainder of C's fmod, which keeps the sign of h
WrapHue_fmod(h) == FMod(FDiv(h, Six), One)

\* (h / 6.0) % 1.0, h finite
WrapHue(h) == FRem(FDiv(h, Six), One)

\* <<h, s, v>> from mx = <<max_rgb, argmax_rgb>> and deltac = max_rgb - min_rgb
hsv_of(px, eps, mx, deltac) ==
  <<FMul(TwoPi,
         WrapHue(HueAt(mx[2], FSub(mx[1], px[1]), FSub(mx[1], px[2]),
                       FSub(mx[1], px[3]),
                       IF deltac = Zero THEN One ELSE deltac))),
    FDiv(deltac, FAdd(mx[1], eps)),
    mx[1]>>

rgb2hsv_px(px, eps) == hsv_of(px, eps, MaxOf(px), FSub(MaxOf(px)[1], MinOf(px)))

rgb2hsv(t, eps) ==
  IF BadShape(t) THEN ValueError
  ELSE StackPixels(t, [p \in PixelIndex(t) |-> rgb2hsv_px(PixelAt(t, p), eps)], 3)

\* hi.long(): defined for the integral values floor() % 6 produces
ToLong(a) == a[1] * 2^(a[2])

\* the sector index and the fraction within the sector
SectorAt(h6, hi) == <<ToLong(hi), FSub(FRem(h6, Six), hi)>>
SectorOf(h6) == SectorAt(h6, FRem(FFloor(h6), Six))
HueSector(hue) == SectorOf(FMul(FDiv(hue, TwoPi), Six))

\* the planes with q and t exchanged in the red rows
HsvTable_swapped(v, p, q, t) ==
  <<v, t, p, p, q, v, t, v, v, q, p, p, p, p, t, v, v, q>>

\* the 18 stacked planes: entries 0..5 red, 6..11 green, 12..17 blue
HsvTable(v, p, q, t) ==
  <<v, q, p, p, t, v, t, v, v, q, p, p, p, p, t, v, v, q>>

HsvP(s, v) == FMul(v, FSub(One, s))
\* q computed as p is, without the fraction f
HsvQ_without_f(s, v, f) == FMul(v, FSub(One, s))
HsvQ(s, v, f) == FMul(v, FSub(One, FMul(f, s)))
HsvT(s, v, f) == FMul(v, FSub(One, FMul(FSub(One, f), s)))

\* indices = stack([hi, hi + 6, hi + 12])
GatherIndices(hi) == <<hi, hi + 6, hi + 12>>

\* torch.gather(out, -3, indices)
Gather(tab, indices) == [c \in 1..3 |-> tab[indices[c] + 1]]

\* the pixel gathered for hf = <<hi, f>>
rgb_at(px, hf) ==
  Gather(HsvTable(px[3], HsvP(px[2], px[3]), HsvQ(px[2], px[3], hf[2]),
                  HsvT(px[2], px[3], hf[2])),
         GatherIndices(hf[1]))

hsv2rgb_px(px) == rgb_at(px, HueSector(px[1]))

hsv2rgb(t) ==
  IF BadShape(t) THEN ValueError
  ELSE StackPixels(t, [p \in PixelIndex(t) |-> hsv2rgb_px(PixelAt(t, p))], 3)

(***************************************************************************)
(* RGB <-> YUV                                                             *)
(***************************************************************************)
\* rgb2yuv and yuv2rgb index channels 0, 1, 2 without validating the shape:
\* a tensor of rank < 3 or with fewer than 3 channels fails in the indexing
CannotIndex(t) == Rank(t) < 3 \/ t.shape[Rank(t) - 2] < 3

\* the decimal literals of y, u and v, as float32
rgb2yuv_coef ==
  << <<Dec(299, 1000), Dec(587, 1000), Dec(114, 1000)>>,
     <<Dec(-14713, 100000), Dec(28886, 100000), Dec(436, 1000)>>,
     <<Dec(615, 1000), Dec(51499, 100000), Dec(10001, 100000)>> >>

\* px = <<r, g, b>>
rgb2yuv_px(px) ==
  << FAdd(FAdd(FMul(rgb2yuv_coef[1][1], px[1]), FMul(rgb2yuv_coef[1][2], px[2])),
          FMul(rgb2yuv_coef[1][3], px[3])),
     FAdd(FSub(FMul(rgb2yuv_coef[2][1], px[1]), FMul(rgb2yuv_coef[2][2], px[2])),
          FMul(rgb2yuv_coef[2][3], px[3])),
     FSub(FSub(FMul(rgb2yuv_coef[3][1], px[1]), FMul(rgb2yuv_coef[3][2], px[2])),
          FMul(rgb2yuv_coef[3][3], px[3])) >>

rgb2yuv(t, clip) ==
  IF CannotIndex(t) THEN IndexError
  ELSE StackPixels(t, [p \in PixelIndex(t) |-> rgb2yuv_px(PixelAt(t, p))], 3)

\* the same with two digits of 0.58060 transposed
yuv2rgb_coef_transposed ==
  << <<Zero, Dec(113983, 100000)>>,
     <<Dec(39465, 100000), Dec(50860, 100000)>>,
     <<Dec(203211, 100000), Zero>> >>

\* the literals of r, g and b that multiply u and v
yuv2rgb_coef ==
  << <<Zero, Dec(113983, 100000)>>,
     <<Dec(39465, 100000), Dec(58060, 100000)>>,
     <<Dec(203211, 100000), Zero>> >>

\* px = <<y, u, v>>
yuv2rgb_px(px) ==
  << FAdd(FAdd(px[1], FMul(yuv2rgb_coef[1][1], px[2])),
          FMul(yuv2rgb_coef[1][2], px[3])),
     FSub(FSub(px[1], FMul(yuv2rgb_coef[2][1], px[2])),
          FMul(yuv2rgb_coef[2][2], px[3])),
     FAdd(FAdd(px[1], FMul(yuv2rgb_coef[3][1], px[2])),
          FMul(yuv2rgb_coef[3][2], px[3])) >>

ClipUnit(t) ==
  Tensor(t.shape, [k \in DOMAIN t.data |-> Clamp(t.data[k], Zero, One)])

\* out before the clamp
yuv2rgb_out(t) ==
  StackPixels(t, [p \in PixelIndex(t) |-> yuv2rgb_px(PixelAt(t, p))], 3)

yuv2rgb(t, clip) ==
  IF CannotIndex(t) THEN IndexError
  ELSE IF clip THEN ClipUnit(yuv2rgb_out(t))
  ELSE yuv2rgb_out(t)

(***************************************************************************)
(* torch.pow.  pow(x, 3.0) is two rounded multiplications.  A fractional   *)
(* power p/q is evaluated in fixed point with PowBits fractional bits, by  *)
(* integer root extraction: an approximation of powf, whose last bits the  *)
(* library does not guarantee either.                                      *)
(***************************************************************************)
PowBits == 12

FxOne == 2^PowBits
FxMul(a, b) == (a * b) \div FxOne

RECURSIVE FxPowInt(_, _)
FxPowInt(y, n) == IF n = 0 THEN FxOne ELSE FxMul(y, FxPowInt(y, n - 1))

\* cur * y^n <= x, without forming powers above x when y >= 1
RECURSIVE PowLeq(_, _, _, _)
PowLeq(cur, y, n, x) ==
  IF n = 0 THEN cur <= x
  ELSE IF cur > x /\ y >= FxOne THEN FALSE
  ELSE PowLeq(FxMul(cur, y), y, n - 1, x)

\* the largest y in lo..hi with y^n <= x (lo has it)
RECURSIVE RootSearch(_, _, _, _)
RootSearch(lo, hi, n, x) ==
  IF lo >= hi THEN lo
  ELSE LET mid == (lo + hi + 1) \div 2 IN
       IF PowLeq(FxOne, mid, n, x) THEN RootSearch(mid, hi, n, x)
       ELSE RootSearch(lo, mid - 1, n, x)

\* the n-th root of a fixed-point x in [1, 2]
FxRoot(x, n) == RootSearch(FxOne, x, n, x)

\* torch.pow(x, p / q), p > 0, q > 1: NaN for a negative base.  With
\* x = m * 2^E, m in [1, 2), and E * p = q * a + b:
\* x^(p/q) = (m^(1/q))^p * (2^(1/q))^b * 2^a
PowParts(m, Ep, p, q) ==
  RoundNE(1, FxMul(FxPowInt(FxRoot(m, q), p),
                   FxPowInt(FxRoot(2 * FxOne, q), Ep % q)),
          (Ep \div q) - PowBits, FALSE)

PowNorm(X, p, q) == PowParts(X[1] \div (2^(23 - PowBits)), (X[2] + 23) * p, p, q)

FPowFrac(x, p, q) ==
  IF x = NaN \/ Sgn(x) < 0 THEN NaN
  ELSE IF x = PInf \/ x = Zero THEN x
  ELSE PowNorm(Expand(x), p, q)

\* torch.pow(x, 3.0)
FCube(x) == FMul(FMul(x, x), x)

(***************************************************************************)
(* sRGB <-> linear RGB, RGB <-> XYZ, RGB <-> Lab                           *)
(***************************************************************************)
SrgbThreshold == Dec(31308, 10000000)   \* 0.0031308
SrgbGain == Dec(1055, 1000)             \* 1.055
SrgbOffset == Dec(55, 1000)             \* 0.055
SrgbSlope == Dec(1292, 100)             \* 12.92
SrgbKnee == Dec(4045, 100000)           \* 0.04045

linear_rgb_to_rgb_el(x) ==
  IF FGt(x, SrgbThreshold)
    THEN FSub(FMul(SrgbGain, FPowFrac(ClampMin(x, SrgbThreshold), 5, 12)),
              SrgbOffset)
    ELSE FMul(SrgbSlope, x)

linear_rgb_to_rgb(t) ==
  IF BadShape(t) THEN ValueError
  ELSE Tensor(t.shape, [k \in DOMAIN t.data |-> linear_rgb_to_rgb_el(t.data[k])])

rgb_to_linear_rgb_el(x) ==
  IF FGt(x, SrgbKnee)
    THEN FPowFrac(FDiv(FAdd(x, SrgbOffset), SrgbGain), 12, 5)
    ELSE FDiv(x, SrgbSlope)

rgb_to_linear_rgb(t) ==
  IF BadShape(t) THEN ValueError
  ELSE Tensor(t.shape, [k \in DOMAIN t.data |-> rgb_to_linear_rgb_el(t.data[k])])

\* a row of a 3x3 matrix applied to a pixel: c1 * x + c2 * y + c3 * z
Row(c, px) == FAdd(FAdd(FMul(c[1], px[1]), FMul(c[2], px[2])), FMul(c[3], px[3]))

\* the 17-digit literals of r, g and b, as float32
xyz_to_rgb_coef ==
  << << <<3397891, -20>>, <<-6447281, -22>>, <<-16728103, -25>> >>,
     << <<-2032675, -21>>, <<15736945, -23>>, <<2788771, -26>> >>,
     << <<14937531, -28>>, <<-6846491, -25>>, <<1108671, -20>> >> >>

xyz_to_rgb_px(px) ==
  <<Row(xyz_to_rgb_coef[1], px), Row(xyz_to_rgb_coef[2], px),
    Row(xyz_to_rgb_coef[3], px)>>

xyz_to_rgb(t) ==
  IF BadShape(t) THEN ValueError
  ELSE StackPixels(t, [p \in PixelIndex(t) |-> xyz_to_rgb_px(PixelAt(t, p))], 3)

rgb_to_xyz_coef ==
  << <<Dec(412453, 1000000), Dec(357580, 1000000), Dec(180423, 1000000)>>,
     <<Dec(212671, 1000000), Dec(715160, 1000000), Dec(72169, 1000000)>>,
     <<Dec(19334, 1000000), Dec(119193, 1000000), Dec(950227, 1000000)>> >>

rgb_to_xyz_px(px) ==
  <<Row(rgb_to_xyz_coef[1], px), Row(rgb_to_xyz_coef[2], px),
    Row(rgb_to_xyz_coef[3], px)>>

rgb_to_xyz(t) ==
  IF BadShape(t) THEN ValueError
  ELSE StackPixels(t, [p \in PixelIndex(t) |-> rgb_to_xyz_px(PixelAt(t, p))], 3)

\* the D65 white point
xyz_ref_white == <<Dec(95047, 100000), One, Dec(108883, 100000)>>

LabThreshold == Dec(8856, 1000000)      \* 0.008856
LabSlope == Dec(7787, 1000)             \* 7.787
LabOffset == Dec(4, 29)                 \* 4.0 / 29.0
LabKnee == Dec(2068966, 10000000)       \* 0.2068966
F16 == FromInt(16)
F116 == FromInt(116)
F500 == FromInt(500)
F200 == FromInt(200)
F100 == FromInt(100)

\* torch.where(xyz_normalized > threshold, power, scale), one element
xyz_int_el(x) ==
  IF FGt(x, LabThreshold) THEN FPowFrac(ClampMin(x, LabThreshold), 1, 3)
  ELSE FAdd(FMul(LabSlope, x), LabOffset)

\* L, a, _b from xyz_int
lab_of(xyz_int) ==
  << FSub(FMul(F116, xyz_int[2]), F16),
     FMul(F500, FSub(xyz_int[1], xyz_int[2])),
     FMul(F200, FSub(xyz_int[2], xyz_int[3])) >>

\* xyz_normalized and xyz_int from xyz_im
xyz_int_of(xyz_im) ==
  <<xyz_int_el(FDiv(xyz_im[1], xyz_ref_white[1])),
    xyz_int_el(FDiv(xyz_im[2], xyz_ref_white[2])),
    xyz_int_el(FDiv(xyz_im[3], xyz_ref_white[3]))>>

rgb2lab_px(px) ==
  lab_of(xyz_int_of(rgb_to_xyz_px(<<rgb_to_linear_rgb_el(px[1]),
                                    rgb_to_linear_rgb_el(px[2]),
                                    rgb_to_linear_rgb_el(px[3])>>)))

rgb2lab(t) ==
  IF BadShape(t) THEN ValueError
  ELSE StackPixels(t, [p \in PixelIndex(t) |-> rgb2lab_px(PixelAt(t, p))], 3)

\* torch.where(fxyz > 0.2068966, power, scale), one element
xyz_el(f) ==
  IF FGt(f, LabKnee) THEN FCube(f) ELSE FDiv(FSub(f, LabOffset), LabSlope)

\* linear_rgb_to_rgb(rgbs_im)
srgb_of(rgbs_im) ==
  <<linear_rgb_to_rgb_el(rgbs_im[1]), linear_rgb_to_rgb_el(rgbs_im[2]),
    linear_rgb_to_rgb_el(rgbs_im[3])>>

\* linear_rgb_to_rgb(xyz_to_rgb(xyz * xyz_ref_white))
rgb_of(xyz) ==
  srgb_of(xyz_to_rgb_px(<<FMul(xyz[1], xyz_ref_white[1]),
                          FMul(xyz[2], xyz_ref_white[2]),
                          FMul(xyz[3], xyz_ref_white[3])>>))

\* xyz from fy, fx = a / 500 + fy and fz = clamp(fy - _b / 200, min=0)
xyz_of(px, fy) ==
  <<xyz_el(FAdd(FDiv(px[2], F500), fy)),
    xyz_el(fy),
    xyz_el(ClampMin(FSub(fy, FDiv(px[3], F200)), Zero))>>

\* px = <<L, a, _b>>
lab2rgb_px(px) == rgb_of(xyz_of(px, FDiv(FAdd(px[1], F16), F116)))

\* rgb_im before the clamp
lab2rgb_out(t) ==
  StackPixels(t, [p \in PixelIndex(t) |-> lab2rgb_px(PixelAt(t, p))], 3)

lab2rgb(t, clip) ==
  IF BadShape(t) THEN ValueError
  ELSE IF clip THEN ClipUnit(lab2rgb_out(t))
  ELSE lab2rgb_out(t)

(***************************************************************************)
(* luma / chroma fusion                                                    *)
(***************************************************************************)
\* img_gray * 100 bound to a local name: the caller's buffer stays as it was
ScaleOutOfPlace(t) == t

\* img_gray *= 100: the caller's buffer after the in-place multiplication
ScaleInPlace(t) == Tensor(t.shape, [k \in DOMAIN t.data |-> FMul(t.data[k], F100)])

\* t[..., 1:, :, :]
SliceFrom(t, n, inner) ==
  Tensor(Batch(t) \o <<n>> \o Spatial(t),
         [k \in 1..(Outer(t) * n * inner) |->
            At(t, (k - 1) \div (n * inner),
                  (((k - 1) \div inner) % n) + 1, (k - 1) % inner)])

ChromaSlice(t) == SliceFrom(t, Chan(t) - 1, Inner(t))

\* the axis fuse_luma_chroma concatenates along
CatDim == 0

\* rows blocks, each la elements of a followed by lb elements of b
Interleave(a, b, la, lb) ==
  [k \in 1..(Len(a) + Len(b)) |->
     IF (k - 1) % (la + lb) < la
       THEN a[((k - 1) \div (la + lb)) * la + ((k - 1) % (la + lb)) + 1]
       ELSE b[((k - 1) \div (la + lb)) * lb + ((k - 1) % (la + lb)) - la + 1]]

\* torch.cat([a, b], dim): the ranks and every other dimension must agree
Cat(a, b, dim) ==
  IF Rank(b) # Rank(a) \/ dim + 1 > Rank(a)
     \/ \E d \in 1..Rank(a) : d # dim + 1 /\ a.shape[d] # b.shape[d]
    THEN RuntimeError
    ELSE Tensor([d \in 1..Rank(a) |->
                   IF d = dim + 1 THEN a.shape[d] + b.shape[d] ELSE a.shape[d]],
                Interleave(a.data, b.data,
                           Prod(SubSeq(a.shape, dim + 1, Rank(a))),
                           Prod(SubSeq(b.shape, dim + 1, Rank(a)))))

\* <<the caller's img_gray after the call, what the call returns or raises>>
\* rgb = lab2rgb(lab), once torch.cat has returned or raised
fuse_lab(scaled, lab) ==
  IF IsError(lab) THEN <<scaled, lab>> ELSE <<scaled, lab2rgb(lab, TRUE)>>

\* ab and lab, once img_gray is scaled and rgb2lab has returned or raised
fuse_scaled(scaled, lab_rgb) ==
  IF IsError(lab_rgb) THEN <<scaled, lab_rgb>>
  ELSE fuse_lab(scaled, Cat(scaled, ChromaSlice(lab_rgb), CatDim))

\* <<the caller's img_gray after the call, what the call returns or raises>>
fuse_luma_chroma(gray, rgb) == fuse_scaled(ScaleInPlace(gray), rgb2lab(rgb))

(***************************************************************************)
(* the caller: the tensors it holds and the calls it makes                 *)
(***************************************************************************)
Levels == 4
MaxChain == 1
MaxFuse == 2

NoCall == [fn |-> "none", clip |-> FALSE]

Grid == {Dec(k, Levels) : k \in 0..Levels}
Tiny == <<1, -23>>
RgbValues == Grid \cup {Dec(-1, Levels), Dec(Levels + 1, Levels), Tiny,
                        FNeg(DefaultEps)}
HueValues == {Dec(k, 2) : k \in -3..15} \cup {FMul(TwoPi, Dec(k, 6)) : k \in -1..7}
               \cup {FromInt(-1000), FromInt(1000)}
YuvValues == Grid \cup {Dec(-1, Levels), Dec(Levels + 1, Levels)}
LabValues == Grid \cup {FromInt(-100), FromInt(50), FromInt(100), PInf}

PixelTensor(p) == Tensor(<<3, 1, 1>>, p)
PixelsOver(S) == {PixelTensor(<<a, b, c>>) : a \in S, b \in S, c \in S}

\* a tensor of the given shape, its elements running over the grid
Fill(shape, base) ==
  Tensor(shape, [k \in 1..Prod(shape) |-> Dec(1 + ((k + base) % Levels), Levels)])

Shapes ==
  { <<3, 1, 1>>, <<3, 1, 2>>, <<3, 2, 1>>, <<1, 3, 1, 1>>, <<2, 3, 1, 1>>,
    <<4, 1, 1>>, <<2, 1, 1>>, <<1, 1, 1>>, <<2, 4, 1, 1>>, <<3, 2, 1, 1>>,
    <<1, 1>>, <<3, 3>>, <<3>>, <<>> }

\* <<shape of img_gray, shape of img_rgb>>
FuseShapes ==
  { << <<1, 1, 1>>, <<3, 1, 1>> >>, << <<1, 1, 2>>, <<3, 1, 2>> >>,
    << <<1, 1, 1, 1>>, <<1, 3, 1, 1>> >>, << <<2, 1, 1, 1>>, <<2, 3, 1, 1>> >>,
    << <<1, 1, 1>>, <<4, 1, 1>> >>, << <<1, 1, 1>>, <<3, 1, 2>> >>,
    << <<2, 1, 1>>, <<3, 1, 1>> >>, << <<1, 1>>, <<3, 1, 1>> >> }

InitRest ==
  /\ out = None
  /\ last = NoCall
  /\ src = image
  /\ chain = <<>>
  /\ nfuse = 0

InitBuffers ==
  /\ img_gray = Fill(<<1, 1, 1>>, 0)
  /\ img_rgb = Fill(<<3, 1, 1>>, 0)

Init ==
  /\ \/ /\ image \in {Fill(sh, base) : sh \in Shapes, base \in 0..1}
        /\ InitBuffers
     \/ /\ image = Fill(<<3, 1, 1>>, 0)
        /\ \E fs \in FuseShapes, base \in 0..1 :
             /\ img_gray = Fill(fs[1], base)
             /\ img_rgb = Fill(fs[2], base)
  /\ InitRest

InitHsv ==
  /\ image \in PixelsOver(RgbValues)
             \cup {PixelTensor(<<h, s, v>>) :
                     h \in HueValues, s \in {Zero, Dec(1, 2), One},
                     v \in {Zero, Dec(1, 2), One}}
  /\ InitBuffers
  /\ InitRest

InitYuv ==
  /\ image \in PixelsOver(YuvValues)
  /\ InitBuffers
  /\ InitRest

InitClip ==
  /\ image \in PixelsOver(LabValues)
  /\ InitBuffers
  /\ InitRest

\* a call of a transform: it returns or raises, and its argument stays as it is
Returns(fn, clip, result) ==
  /\ out' = result
  /\ last' = [fn |-> fn, clip |-> clip]
  /\ UNCHANGED <<image, img_gray, img_rgb, src, chain, nfuse>>

Call_rgb2hsv == Returns("rgb2hsv", FALSE, rgb2hsv(image, DefaultEps))

Call_hsv2rgb == Returns("hsv2rgb", FALSE, hsv2rgb(image))

Call_rgb2yuv == \E clip \in BOOLEAN : Returns("rgb2yuv", clip, rgb2yuv(image, clip))

Call_yuv2rgb == \E clip \in BOOLEAN : Returns("yuv2rgb", clip, yuv2rgb(image, clip))

Call_rgb2lab == Returns("rgb2lab", FALSE, rgb2lab(image))

Call_lab2rgb == \E clip \in BOOLEAN : Returns("lab2rgb", clip, lab2rgb(image, clip))

Call_rgb_to_xyz == Returns("rgb_to_xyz", FALSE, rgb_to_xyz(image))

Call_xyz_to_rgb == Returns("xyz_to_rgb", FALSE, xyz_to_rgb(image))

Call_rgb_to_linear_rgb == Returns("rgb_to_linear_rgb", FALSE, rgb_to_linear_rgb(image))

Call_linear_rgb_to_rgb == Returns("linear_rgb_to_rgb", FALSE, linear_rgb_to_rgb(image))

Call_fuse_luma_chroma ==
  /\ nfuse < MaxFuse
  /\ \E r \in {fuse_luma_chroma(img_gray, img_rgb)} :
       /\ img_gray' = r[1]
       /\ out' = r[2]
  /\ last' = [fn |-> "fuse_luma_chroma", clip |-> TRUE]
  /\ nfuse' = nfuse + 1
  /\ UNCHANGED <<image, img_rgb, src, chain>>

\* the caller passes the finite tensor a call returned to its next call: g(f(x))
Pass ==
  /\ IsTensor(out)
  /\ \A k \in DOMAIN out.data : IsFinite(out.data[k])
  /\ Len(chain) < MaxChain
  /\ image' = out
  /\ src' = image
  /\ chain' = Append(chain, last.fn)
  /\ out' = None
  /\ last' = NoCall
  /\ UNCHANGED <<img_gray, img_rgb, nfuse>>

Next ==
  \/ Call_rgb2hsv
  \/ Call_hsv2rgb
  \/ Call_rgb2yuv
  \/ Call_yuv2rgb
  \/ Call_rgb2lab
  \/ Call_lab2rgb
  \/ Call_rgb_to_xyz
  \/ Call_xyz_to_rgb
  \/ Call_rgb_to_linear_rgb
  \/ Call_linear_rgb_to_rgb
  \/ Call_fuse_luma_chroma

Spec == Init /\ [][Next]_vars

NextHsv == Call_rgb2hsv \/ Call_hsv2rgb \/ Pass
SpecHsv == InitHsv /\ [][NextHsv]_vars

NextYuv == Call_rgb2yuv \/ Call_yuv2rgb \/ Pass
SpecYuv == InitYuv /\ [][NextYuv]_vars

NextClip == Call_yuv2rgb \/ Call_lab2rgb
SpecClip == InitClip /\ [][NextClip]_vars

(***************************************************************************)
(* properties                                                              *)
(***************************************************************************)
InUnit(x) == FLe(Zero, x) /\ FLe(x, One)
AllInUnit(t) == \A k \in DOMAIN t.data : InUnit(t.data[k])
AllFinite(t) == \A k \in DOMAIN t.data : IsFinite(t.data[k])

\* |a - b| <= tol; the difference of two float32 this close is exact
Within(a, b, tol) == FLe(FSub(a, b), tol) /\ FLe(FSub(b, a), tol)
AllWithin(a, b, tol) ==
  /\ a.shape = b.shape
  /\ \A k \in DOMAIN a.data : Within(a.data[k], b.data[k], tol)

Tol1e5 == Dec(1, 100000)
Tol3e5 == Dec(3, 100000)

\* the positions <<batch, spatial>> of the pixels of t
Positions(t) == (0..(Outer(t) - 1)) \X (0..(Inner(t) - 1))

ConversionFns ==
  {"rgb2hsv", "hsv2rgb", "rgb2yuv", "yuv2rgb", "rgb2lab", "lab2rgb",
   "rgb_to_xyz", "xyz_to_rgb", "rgb_to_linear_rgb", "linear_rgb_to_rgb"}

\* C1, as the specification states it: each of the ten conversion functions,
\* called with a tensor of rank < 3 or with a third-from-last dimension other
\* than 3, raises the shape error and returns nothing.
C1_RejectsBadShape ==
  (last.fn \in ConversionFns /\ BadShape(image)) => out = ValueError

\* C1: rgb2yuv returned a (3, H, W) tensor for a (4, H, W) input
C1_Returned ==
  /\ last.fn = "rgb2yuv"
  /\ image.shape = <<4, 1, 1>>
  /\ IsTensor(out)
  /\ out.shape = <<3, 1, 1>>

\* the state after yuv2rgb(rgb2yuv(src), clip=False), src in [0, 1]
RoundTripYuv ==
  /\ chain = <<"rgb2yuv">>
  /\ last = [fn |-> "yuv2rgb", clip |-> FALSE]
  /\ IsTensor(out)
  /\ AllInUnit(src)

\* C2, as the specification states it: yuv2rgb(rgb2yuv(x), clip=False) is
\* within 1e-5 of x in each channel, for every x in [0, 1]^3.
C2_Within1e5 == RoundTripYuv => AllWithin(out, src, Tol1e5)

\* C2, amended: yuv2rgb(rgb2yuv(x), clip=False) is within 3e-5 of x in each
\* channel, for every x in [0, 1]^3.
C2_Within3e5 == RoundTripYuv => AllWithin(out, src, Tol3e5)

\* C2: a round trip that lands between the two tolerances
C2_BeyondTolerance ==
  /\ RoundTripYuv
  /\ src.data = <<One, One, Zero>>
  /\ ~AllWithin(out, src, Tol1e5)
  /\ AllWithin(out, src, Tol3e5)

\* the state after hsv2rgb(rgb2hsv(src)), src in [0, 1], where the
\* intermediate s and v are not 0
RoundTripHsv ==
  /\ chain = <<"rgb2hsv">>
  /\ last.fn = "hsv2rgb"
  /\ IsTensor(out)
  /\ AllInUnit(src)
  /\ \A pos \in Positions(image) :
       /\ Pixel(image, pos[1], pos[2])[2] # Zero
       /\ Pixel(image, pos[1], pos[2])[3] # Zero

\* C3: hsv2rgb(rgb2hsv(x)), with the default eps, is within 1e-5 of x in each
\* channel, for every x in [0, 1]^3 whose s and v are not 0.
C3_RoundTrip == RoundTripHsv => AllWithin(out, src, Tol1e5)

\* C3: a round trip through a hue in an odd sector, which uses q
C3_Witness ==
  /\ RoundTripHsv
  /\ src.data = <<Dec(1, 2), One, Zero>>
  /\ HueSector(image.data[1])[1] = 1

\* C4: a call of a conversion function changes none of the caller's tensors;
\* a call of fuse_luma_chroma leaves img_rgb as it was and leaves in img_gray
\* 100 times each value it held before the call.
C4_Frame ==
  [][/\ image' = image
     /\ img_rgb' = img_rgb
     /\ IF nfuse' = nfuse THEN img_gray' = img_gray
        ELSE /\ img_gray'.shape = img_gray.shape
             /\ \A k \in DOMAIN img_gray.data :
                  img_gray'.data[k] = FMul(img_gray.data[k], FromInt(100))]_vars

\* C4: fuse_luma_chroma has returned and the caller's buffer holds 100 times
\* its first value
C4_Witness ==
  /\ nfuse = 1
  /\ last.fn = "fuse_luma_chroma"
  /\ IsTensor(out)
  /\ img_rgb = Fill(<<3, 1, 1>>, 0)
  /\ img_gray.data[1] = FMul(Fill(<<1, 1, 1>>, 0).data[1], FromInt(100))

AfterRgb2hsv == last.fn = "rgb2hsv" /\ IsTensor(out)

\* s and v of every output pixel lie in [0, 1]
UnitSV(t) ==
  \A pos \in Positions(t) :
    InUnit(Pixel(t, pos[1], pos[2])[2]) /\ InUnit(Pixel(t, pos[1], pos[2])[3])

\* C5, as the specification states it: the hue rgb2hsv returns lies in
\* [0, 2 pi) for every input, and s and v lie in [0, 1] for inputs in [0, 1].
\* No float32 lies between 2 pi and TwoPi, so hue < 2 pi is hue < TwoPi.
C5_HueHalfOpen ==
  AfterRgb2hsv =>
    /\ \A pos \in Positions(out) :
         /\ FLe(Zero, Pixel(out, pos[1], pos[2])[1])
         /\ FLt(Pixel(out, pos[1], pos[2])[1], TwoPi)
    /\ AllInUnit(image) => UnitSV(out)

\* C5, amended: for a finite input the hue rgb2hsv returns lies in the closed
\* interval from 0 to float32(2 pi), and s and v lie in [0, 1] for inputs in
\* [0, 1].
C5_HueClosed ==
  (AfterRgb2hsv /\ AllFinite(image)) =>
    /\ \A pos \in Positions(out) :
         /\ FLe(Zero, Pixel(out, pos[1], pos[2])[1])
         /\ FLe(Pixel(out, pos[1], pos[2])[1], TwoPi)
    /\ AllInUnit(image) => UnitSV(out)

\* C5: an input in [0, 1] whose hue is float32(2 pi)
C5_HueIsTwoPi ==
  /\ AfterRgb2hsv
  /\ AllInUnit(image)
  /\ out.data[1] = TwoPi

AfterFuse == last.fn = "fuse_luma_chroma"

\* img_rgb is (..., 3, H, W) and img_gray is (..., 1, H, W) with the same
\* batch and spatial dimensions
FuseShapesAgree ==
  /\ Rank(img_rgb) >= 3
  /\ Rank(img_gray) = Rank(img_rgb)
  /\ Chan(img_rgb) = 3
  /\ Chan(img_gray) = 1
  /\ Batch(img_gray) = Batch(img_rgb)
  /\ Spatial(img_gray) = Spatial(img_rgb)

\* C6, as the specification states it: for img_rgb of shape (..., 3, H, W) and
\* img_gray of shape (..., 1, H, W), of any batch rank, fuse_luma_chroma
\* succeeds and returns a tensor of shape (..., 3, H, W).
C6_AnyBatchRank ==
  (AfterFuse /\ FuseShapesAgree) => (IsTensor(out) /\ out.shape = img_rgb.shape)

\* C6: the concatenation failed on a batched pair
C6_BatchedFails ==
  /\ AfterFuse
  /\ FuseShapesAgree
  /\ img_rgb.shape = <<2, 3, 1, 1>>
  /\ out = RuntimeError

AfterClip == last.fn \in {"yuv2rgb", "lab2rgb"} /\ IsTensor(out)

\* the conversion before the clamp
Unclamped(fn, t) ==
  StackPixels(t, [p \in PixelIndex(t) |->
                    IF fn = "yuv2rgb" THEN yuv2rgb_px(PixelAt(t, p))
                    ELSE lab2rgb_px(PixelAt(t, p))], 3)

\* out is raw clamped: within [0, 1], and raw itself where raw is within
ClampedFrom(raw, o) ==
  \A k \in DOMAIN raw.data :
    /\ InUnit(o.data[k])
    /\ InUnit(raw.data[k]) => o.data[k] = raw.data[k]

\* the same, where an element that is NaN before the clamp is NaN after it
ClampedOrNaNFrom(raw, o) ==
  \A k \in DOMAIN raw.data :
    IF raw.data[k] = NaN THEN o.data[k] = NaN
    ELSE /\ InUnit(o.data[k])
         /\ InUnit(raw.data[k]) => o.data[k] = raw.data[k]

Achromatic(px) == px[1] = px[2] /\ px[2] = px[3]

\* C8, as the specification states it: rgb2hsv maps (1, 0, 0) to (0, 1, 1),
\* and every pixel with r = g = b to s = 0 and v = r with a finite hue.
C8_EveryAchromatic ==
  AfterRgb2hsv =>
    \A pos \in Positions(image) :
      /\ Pixel(image, pos[1], pos[2]) = <<One, Zero, Zero>>
           => Pixel(out, pos[1], pos[2]) = <<Zero, One, One>>
      /\ Achromatic(Pixel(image, pos[1], pos[2]))
           => /\ Pixel(out, pos[1], pos[2])[2] = Zero
              /\ Pixel(out, pos[1], pos[2])[3] = Pixel(image, pos[1], pos[2])[1]
              /\ IsFinite(Pixel(out, pos[1], pos[2])[1])

\* C8, amended: rgb2hsv maps (1, 0, 0) to (0, 1, 1), and every pixel with
\* r = g = b finite and r + eps # 0 to hue 0, s = 0 and v = r.
C8_AchromaticOffEps ==
  AfterRgb2hsv =>
    \A pos \in Positions(image) :
      /\ Pixel(image, pos[1], pos[2]) = <<One, Zero, Zero>>
           => Pixel(out, pos[1], pos[2]) = <<Zero, One, One>>
      /\ ( /\ Achromatic(Pixel(image, pos[1], pos[2]))
           /\ IsFinite(Pixel(image, pos[1], pos[2])[1])
           /\ FAdd(Pixel(image, pos[1], pos[2])[1], DefaultEps) # Zero )
           => Pixel(out, pos[1], pos[2])
                = <<Zero, Zero, Pixel(image, pos[1], pos[2])[1]>>

\* C8: white
C8_White ==
  /\ AfterRgb2hsv
  /\ image.data = <<One, One, One>>
  /\ out.data = <<Zero, Zero, One>>

\* the standard table: the triple (R, G, B) of sector hi
StandardSector(hi, v, p, q, t) ==
  CASE hi = 0 -> <<v, t, p>>
    [] hi = 1 -> <<q, v, p>>
    [] hi = 2 -> <<p, v, t>>
    [] hi = 3 -> <<p, q, v>>
    [] hi = 4 -> <<t, p, v>>
    [] hi = 5 -> <<v, p, q>>

\* the pixel hsv2rgb returns for px is sector hf[1] of the standard table
InSector(px, hf, res) ==
  /\ hf[1] \in 0..5
  /\ \A c \in 1..3 : GatherIndices(hf[1])[c] \in 0..17
  /\ res = StandardSector(hf[1], px[3], HsvP(px[2], px[3]),
                          HsvQ(px[2], px[3], hf[2]), HsvT(px[2], px[3], hf[2]))

\* C9: for every finite hue the sector index is in 0..5, the gather indices
\* hi, hi + 6, hi + 12 are within the 18 planes, and the pixel returned is
\* (v,t,p), (q,v,p), (p,v,t), (p,q,v), (t,p,v), (v,p,q) for hi = 0, ..., 5.
C9_SectorTable ==
  (last.fn = "hsv2rgb" /\ IsTensor(out)) =>
    \A pos \in Positions(image) :
      IsFinite(Pixel(image, pos[1], pos[2])[1]) =>
        InSector(Pixel(image, pos[1], pos[2]),
                 HueSector(Pixel(image, pos[1], pos[2])[1]),
                 Pixel(out, pos[1], pos[2]))

\* C9: a hue below 0 in sector 4, where p, q, t and v all differ
C9_Witness ==
  /\ last.fn = "hsv2rgb"
  /\ IsTensor(out)
  /\ image.data = <<Dec(-3, 2), Dec(1, 2), One>>
  /\ HueSector(image.data[1])[1] = 4
  /\ out.data[1] # out.data[2]
  /\ out.data[2] # out.data[3]

\* C10, as the specification states it: a call that fails has changed none
\* of the caller's tensors; when fuse_luma_chroma fails, img_gray holds the
\* values it held before the call.
C10_FailureHasNoEffect ==
  [][IsError(out') =>
       (image' = image /\ img_gray' = img_gray /\ img_rgb' = img_rgb)]_vars

\* C10: fuse_luma_chroma raised rgb2lab's shape error and img_gray is scaled
C10_ScaledThenRaised ==
  /\ AfterFuse
  /\ nfuse = 1
  /\ out = ValueError
  /\ img_rgb = Fill(<<4, 1, 1>>, 0)
  /\ img_gray = ScaleInPlace(Fill(<<1, 1, 1>>, 0))

====
